---- MODULE Spec2Model ----
(***************************************************************************)
(* A model of cpl.client.CPLClient: the constructor with its best-effort    *)
(* player cache, the generic GET, the seven retrieval operations with      *)
(* their 404 handling, player enrichment and the leaderboard computation.  *)
(*                                                                         *)
(* Text that the code searches ("404" in str(err)) is modelled as a        *)
(* sequence of one-character strings; identifiers that are only compared   *)
(* or used as dictionary keys are TLA+ strings.  A Python dict is a        *)
(* function whose DOMAIN is the set of keys.                               *)
(***************************************************************************)
EXTENDS Integers, Sequences, FiniteSets, TLC

VARIABLES
    pc,             \* "new" before __init__, "open" after it, "closed" after close()
    player_cache,   \* self._player_cache
    last            \* the last call: operation, arguments, server response, outcome

vars == <<pc, player_cache, last>>

-----------------------------------------------------------------------------
(* Bounds of the model *)

MaxPlayers == 6      \* longest player list given to get_leaderboards
MaxDirectory == 2    \* longest "players" list of the player directory
MaxCallerPlayers == 2 \* longest player list given to get_leaderboards among other operations

-----------------------------------------------------------------------------
(* Python values *)

None == "<None>"

Truthy(x) == x /= None /\ x /= ""

\* a or b
Or(a, b) == IF Truthy(a) THEN a ELSE b

\* d.get(k)
DictGet(d, k) == IF k \in DOMAIN d THEN d[k] ELSE None

\* d[k] = v
DictSet(d, k, v) == [x \in (DOMAIN d) \cup {k} |-> IF x = k THEN v ELSE d[x]]

\* sub in s, for texts
Contains(s, sub) ==
    \E i \in 1..(Len(s) - Len(sub) + 1) : SubSeq(s, i, i + Len(sub) - 1) = sub

Digit(d) ==
    CASE d = 0 -> "0" [] d = 1 -> "1" [] d = 2 -> "2" [] d = 3 -> "3" [] d = 4 -> "4"
      [] d = 5 -> "5" [] d = 6 -> "6" [] d = 7 -> "7" [] d = 8 -> "8" [] d = 9 -> "9"

\* str(n) for n >= 0
RECURSIVE IntToText(_)
IntToText(n) == IF n < 10 THEN <<Digit(n)>> ELSE IntToText(n \div 10) \o <<Digit(n % 10)>>

-----------------------------------------------------------------------------
(* constants.py *)

COMPETITION_ID == <<"1","h","a","7","b","n","f","g","b","8","9","1","3","1","e","y","8","c","p","x","5","v","v","v","p","l">>
DEFAULT_SEASON_ID == <<"1","1","0","q","u","l","r","8","0","h","8","a","i","l","8","r","g","w","i","0","o","7","x","0">>
DEFAULT_RT == <<"c">>
DEFAULT_FMT == <<"j","s","o","n">>
API_BASE == <<"h","t","t","p","s",":","/","/","a","p","i",".","p","e","r","f","o","r","m","f","e","e","d","s",".","c","o","m","/","s","o","c","c","e","r","d","a","t","a">>
MATCH_BASE_URL == API_BASE \o <<"/","m","a","t","c","h","/">> \o COMPETITION_ID
STANDINGS_BASE_URL == API_BASE \o <<"/","s","t","a","n","d","i","n","g","s","/">> \o COMPETITION_ID
TEAM_INFO_BASE_URL == API_BASE \o <<"/","t","e","a","m","/">> \o COMPETITION_ID
ROSTER_BASE_URL == API_BASE \o <<"/","s","q","u","a","d","s","/">> \o COMPETITION_ID
PLAYER_CAREER_BASE_URL == API_BASE \o <<"/","p","l","a","y","e","r","c","a","r","e","e","r","/">> \o COMPETITION_ID
CPL_BASE_API_URL == <<"h","t","t","p","s",":","/","/","l","o","g","i","n",".","c","a","n","p","l",".","c","a","/","a","p","i">>
PLAYERS_ENDPOINT == CPL_BASE_API_URL \o <<"/","p","l","a","y","e","r","s">>

\* client.py imports these two names; constants.py does not set them.  The
\* endpoints are "team statistics / player statistics (by season id)".
TEAM_STATS_BASE_URL == <<"h","t","t","p","s",":","/","/","s","t","a","t","s","/","t","e","a","m","s">>
PLAYER_STATS_BASE_URL == <<"h","t","t","p","s",":","/","/","s","t","a","t","s","/","p","l","a","y","e","r","s">>

MATCH_PARAMS ==
    << <<"tmcl", DEFAULT_SEASON_ID>>, <<"_rt", DEFAULT_RT>>, <<"_pgSz", <<"2","0","0">> >>,
       <<"_ordSrt", <<"a","s","c">> >>, <<"live", <<"y","e","s">> >>, <<"_fmt", DEFAULT_FMT>> >>

LEADERBOARD_LIMIT == 5

\* The characters urllib.parse.quote_plus leaves as they are, among those the
\* model's identifiers use.
Unreserved ==
    {"0","1","2","3","4","5","6","7","8","9",
     "a","b","c","d","e","f","g","h","i","j","k","l","m","n","o","p","q","r","s","t",
     "u","v","w","x","y","z","_",".","-"}

\* quote_plus of one character
QuoteChar(c) ==
    CASE c \in Unreserved -> <<c>>
      [] c = " " -> <<"+">>
      [] c = "@" -> <<"%","4","0">>
      [] c = "/" -> <<"%","2","F">>
      [] OTHER -> <<"%","3","F">>

RECURSIVE QuotePlus(_)
QuotePlus(s) == IF s = <<>> THEN <<>> ELSE QuoteChar(Head(s)) \o QuotePlus(Tail(s))

\* the text of a parameter name
KeyText(k) ==
    CASE k = "tmcl" -> <<"t","m","c","l">>
      [] k = "_rt" -> <<"_","r","t">>
      [] k = "_pgSz" -> <<"_","p","g","S","z">>
      [] k = "_ordSrt" -> <<"_","o","r","d","S","r","t">>
      [] k = "live" -> <<"l","i","v","e">>
      [] k = "_fmt" -> <<"_","f","m","t">>
      [] k = "detailed" -> <<"d","e","t","a","i","l","e","d">>
      [] k = "ctst" -> <<"c","t","s","t">>
      [] k = "prsn" -> <<"p","r","s","n">>

\* urllib.parse.urlencode(params), params a sequence of <<key, value>>
RECURSIVE UrlEncode(_)
UrlEncode(params) ==
    IF params = <<>> THEN <<>>
    ELSE KeyText(params[1][1]) \o <<"=">> \o QuotePlus(params[1][2])
         \o (IF Len(params) > 1 THEN <<"&">> ELSE <<>>) \o UrlEncode(Tail(params))

build_url(base, params) == base \o <<"?">> \o UrlEncode(params)

-----------------------------------------------------------------------------
(* exceptions.py *)

\* the base class of each exception class ("" for none that matters)
Bases(cls) ==
    CASE cls = "RequestError" -> "CPLSDKError"
      [] cls = "APITimeoutError" -> "CPLSDKError"
      [] cls = "CPLSDKError" -> "Exception"
      [] cls \in {"ValueError", "KeyError", "AttributeError", "TypeError", "RuntimeError"} -> "Exception"
      [] cls = "JSONDecodeError" -> "ValueError"
      [] OTHER -> ""

\* except cls: catches exc
RECURSIVE IsInstance(_, _)
IsInstance(exc, cls) ==
    \/ exc = cls
    \/ (Bases(exc) /= "" /\ IsInstance(Bases(exc), cls))

Raise(exc, msg) == [kind |-> "raise", exc |-> exc, msg |-> msg]
Return(v) == [kind |-> "return", value |-> v]

-----------------------------------------------------------------------------
(* What the server may answer to one GET (the input of _get) *)

Resp(t, code, msg, json, body) ==
    [t |-> t, code |-> code, msg |-> msg, json |-> json, body |-> body]

NoResp == Resp("none", 0, <<>>, FALSE, None)

TimedOutText == <<"t","i","m","e","d"," ","o","u","t">>
NotFoundText == <<"N","o","t"," ","F","o","u","n","d">>

\* str() of an httpx.TimeoutException
TimeoutMessages == {TimedOutText, <<"4","0","4"," ">> \o TimedOutText}

\* str() of an httpx.TransportError that is no timeout
TransportMessages ==
    {<<"A","l","l"," ","c","o","n","n","e","c","t","i","o","n"," ","a","t","t","e","m","p","t","s"," ","f","a","i","l","e","d">>,
     <<"4","0","4"," ">> \o NotFoundText}

\* status codes of the failing answers
ErrorStatuses == {404, 500}

\* the answers to a GET whose successful bodies are `bodies`
Responses(bodies) ==
    {Resp("timeout", 0, m, FALSE, None) : m \in TimeoutMessages}
    \cup {Resp("transport", 0, m, FALSE, None) : m \in TransportMessages}
    \cup {Resp("status", c, <<>>, FALSE, None) : c \in ErrorStatuses}
    \cup {Resp("status", 200, <<>>, FALSE, None)}
    \cup {Resp("status", 200, <<>>, TRUE, b) : b \in bodies}

ReasonPhrase(code) ==
    CASE code = 404 -> NotFoundText
      [] code = 500 -> <<"I","n","t","e","r","n","a","l"," ","S","e","r","v","e","r"," ","E","r","r","o","r">>
      [] OTHER -> <<>>

ErrorType(code) ==
    CASE code \div 100 = 1 -> <<"I","n","f","o","r","m","a","t","i","o","n","a","l"," ","r","e","s","p","o","n","s","e">>
      [] code \div 100 = 3 -> <<"R","e","d","i","r","e","c","t"," ","r","e","s","p","o","n","s","e">>
      [] code \div 100 = 4 -> <<"C","l","i","e","n","t"," ","e","r","r","o","r">>
      [] OTHER -> <<"S","e","r","v","e","r"," ","e","r","r","o","r">>

\* str() of the httpx.HTTPStatusError that response.raise_for_status() raises
HTTPStatusErrorMessage(code, url) ==
    ErrorType(code) \o <<" ","'">> \o IntToText(code) \o <<" ">> \o ReasonPhrase(code)
    \o <<"'"," ","f","o","r"," ","u","r","l"," ","'">> \o url \o <<"'","\n">>
    \o <<"F","o","r"," ","m","o","r","e"," ","i","n","f","o","r","m","a","t","i","o","n"," ","c","h","e","c","k",":"," ">>
    \o <<"h","t","t","p","s",":","/","/","d","e","v","e","l","o","p","e","r",".","m","o","z","i","l","l","a",".","o","r","g">>
    \o <<"/","e","n","-","U","S","/","d","o","c","s","/","W","e","b","/","H","T","T","P","/","S","t","a","t","u","s","/">>
    \o IntToText(code)

-----------------------------------------------------------------------------
(* CPLClient._get *)

TimeoutErrorPrefix == <<"T","i","m","e","o","u","t"," ","e","r","r","o","r",":"," ">>
RequestErrorPrefix == <<"E","r","r","o","r"," ","f","e","t","c","h","i","n","g"," ","d","a","t","a",":"," ">>
ClosedText == <<"c","l","i","e","n","t"," ","h","a","s"," ","b","e","e","n"," ","c","l","o","s","e","d">>

\* a timeout caught by the second except clause, as any other httpx.HTTPError
GetTimeoutAsRequestError(url, resp, closed) ==
    CASE closed -> Raise("RuntimeError", ClosedText)
      [] ~closed /\ resp.t \in {"timeout", "transport"} ->
            Raise("RequestError", RequestErrorPrefix \o resp.msg)
      [] ~closed /\ resp.t = "status" /\ resp.code \notin 200..299 ->
            Raise("RequestError", RequestErrorPrefix \o HTTPStatusErrorMessage(resp.code, url))
      [] ~closed /\ resp.t = "status" /\ resp.code \in 200..299 /\ ~resp.json ->
            Raise("JSONDecodeError", <<>>)
      [] OTHER -> Return(resp.body)

\* self._get(url): the outcome of the GET of url answered by resp
Get(url, resp, closed) ==
    CASE closed -> Raise("RuntimeError", ClosedText)
      [] ~closed /\ resp.t = "timeout" ->
            Raise("APITimeoutError", TimeoutErrorPrefix \o resp.msg)
      [] ~closed /\ resp.t = "transport" ->
            Raise("RequestError", RequestErrorPrefix \o resp.msg)
      [] ~closed /\ resp.t = "status" /\ resp.code \notin 200..299 ->
            Raise("RequestError", RequestErrorPrefix \o HTTPStatusErrorMessage(resp.code, url))
      [] ~closed /\ resp.t = "status" /\ resp.code \in 200..299 /\ ~resp.json ->
            Raise("JSONDecodeError", <<>>)
      [] OTHER -> Return(resp.body)

\* a _get that sends the request a second time
GetRequestsWithRetry(closed) == IF closed THEN 0 ELSE 2

\* the number of GETs one call of _get issues
GetRequests(closed) == IF closed THEN 0 ELSE 1

\* the URLs one call of _get(url) requests
GetUrls(url, closed) == IF closed THEN <<>> ELSE <<url>>

-----------------------------------------------------------------------------
(* CPLClient._initialize_player_cache *)

\* JSON values of the player directory, tagged with their JSON type
JObject(o) == [jt |-> "object", obj |-> o]
JString(s) == [jt |-> "string", s |-> s]
JArray(a) == [jt |-> "array", items |-> a]
JNull == [jt |-> "null"]

\* elements of the directory's "players" list
DirectoryElements ==
    {JObject([id |-> "p1", thumbnail |-> "thumb1", default |-> "def1", bio |-> "bio1", name |-> "Ann"]),
     JObject([id |-> "p1", default |-> "def1b", name |-> "Ann B"]),
     JObject([name |-> "NoId"]),
     JString("oops")}

RECURSIVE SeqsUpTo(_, _)
SeqsUpTo(S, n) ==
    IF n = 0 THEN {<<>>}
    ELSE SeqsUpTo(S, n - 1) \cup {Append(s, x) : s \in {t \in SeqsUpTo(S, n - 1) : Len(t) = n - 1}, x \in S}

\* decoded bodies of the player directory
DirectoryBodies ==
    {JNull, JArray(<<>>), JArray(<<JString("players")>>), JObject(<<>>),
     JObject([total |-> "0"]), JObject([players |-> JNull])}
    \cup {JObject([players |-> JArray(ps)]) : ps \in SeqsUpTo(DirectoryElements, MaxDirectory)}

\* not data
Falsy(data) ==
    \/ data.jt = "null"
    \/ data.jt = "array" /\ data.items = <<>>
    \/ data.jt = "object" /\ DOMAIN data.obj = {}

\* "players" in data
HasPlayers(data) ==
    \/ data.jt = "object" /\ "players" \in DOMAIN data.obj
    \/ data.jt = "array" /\ \E i \in 1..Len(data.items) : data.items[i] = JString("players")

\* the cache entry built from one directory element
CacheEntry(player) ==
    [image_url |-> Or(DictGet(player, "thumbnail"), Or(DictGet(player, "default"), "")),
     bio |-> Or(DictGet(player, "bio"), ""),
     name |-> Or(DictGet(player, "name"), "")]

\* the loop over data["players"]: an element that is no dict raises
\* AttributeError, which ends the loop and is swallowed by the handler
RECURSIVE BuildCache(_, _)
BuildCache(cache, players) ==
    IF players = <<>> THEN cache
    ELSE IF Head(players).jt /= "object" THEN cache
    ELSE LET player == Head(players).obj
             player_id == DictGet(player, "id")
         IN BuildCache(
                IF Truthy(player_id) THEN DictSet(cache, player_id, CacheEntry(player)) ELSE cache,
                Tail(players))

\* the cache after _initialize_player_cache, given the outcome of its _get;
\* every exception is caught and logged
InitializePlayerCache(out) ==
    IF out.kind = "raise" THEN <<>>
    ELSE LET data == out.value IN
         IF Falsy(data) \/ ~HasPlayers(data) THEN <<>>
         ELSE IF data.jt /= "object" THEN <<>>                     \* data["players"] on a list: TypeError
         ELSE IF data.obj["players"].jt /= "array" THEN <<>>       \* not iterable: TypeError
         ELSE BuildCache(<<>>, data.obj["players"].items)

Call(op, arg, resp, out, requests, urls) ==
    [op |-> op, arg |-> arg, resp |-> resp, out |-> out, requests |-> requests, urls |-> urls]

\* CPLClient(): the constructor, the directory GET answered by resp
Construct ==
    /\ pc = "new"
    /\ \E resp \in Responses(DirectoryBodies) :
          /\ player_cache' = InitializePlayerCache(Get(PLAYERS_ENDPOINT, resp, FALSE))
          /\ last' = Call("__init__", <<>>, resp, Return(None), GetRequests(FALSE),
                          GetUrls(PLAYERS_ENDPOINT, FALSE))
    /\ pc' = "open"

\* client.close()
Close ==
    /\ pc \in {"open", "closed"}
    /\ pc' = "closed"
    /\ last' = Call("close", <<>>, NoResp, Return(None), 0, <<>>)
    /\ UNCHANGED player_cache

-----------------------------------------------------------------------------
(* CPLClient._enrich_player_data *)

\* enrichment that also copies the cached display name onto the record
EnrichPlayerDataWithName(cache, player_data, player_id) ==
    IF player_id \in DOMAIN cache
    THEN DictSet(DictSet(DictSet(player_data, "image_url", DictGet(cache[player_id], "image_url")),
                         "bio", DictGet(cache[player_id], "bio")),
                 "firstName", DictGet(cache[player_id], "name"))
    ELSE player_data

\* self._enrich_player_data(player_data, player_id)
EnrichPlayerData(cache, player_data, player_id) ==
    IF player_id \in DOMAIN cache
    THEN DictSet(DictSet(player_data, "image_url", DictGet(cache[player_id], "image_url")),
                 "bio", DictGet(cache[player_id], "bio"))
    ELSE player_data

\* for i, person in enumerate(persons): if person.get("id"): persons[i] = enriched copy
EnrichAll(cache, persons) ==
    [i \in 1..Len(persons) |->
        IF Truthy(DictGet(persons[i], "id"))
        THEN EnrichPlayerData(cache, persons[i], persons[i]["id"])
        ELSE persons[i]]

-----------------------------------------------------------------------------
(* The retrieval operations *)

Text404 == <<"4","0","4">>

\* the except clause looking for "404" at the start of the message only
ExceptRequestErrorStartsWith404(out, sentinel) ==
    IF out.kind = "raise" /\ IsInstance(out.exc, "RequestError")
       /\ Len(out.msg) >= 3 /\ SubSeq(out.msg, 1, 3) = Text404
    THEN Return(sentinel)
    ELSE out

\* except RequestError as err: if "404" in str(err): return sentinel; raise
ExceptRequestError404(out, sentinel) ==
    IF out.kind = "raise" /\ IsInstance(out.exc, "RequestError") /\ Contains(out.msg, Text404)
    THEN Return(sentinel)
    ELSE out

RosterSentinel == [squad |-> <<>>, lastUpdated |-> ""]
TeamStatsSentinel == [ip |-> "", feeds |-> <<>>, contestant |-> <<>>]
PlayerStatsSentinel == [ip |-> "", feeds |-> <<>>, player |-> <<>>]
CareerSentinel == [person |-> <<>>, lastUpdated |-> ""]

StandingsUrl ==
    STANDINGS_BASE_URL \o <<"?","t","m","c","l","=">> \o DEFAULT_SEASON_ID \o <<"&","_","r","t","=">> \o DEFAULT_RT
    \o <<"&","_","f","m","t","=">> \o DEFAULT_FMT \o <<"&","_","o","r","d","S","r","t","=","a","s","c">>
SchedulesUrl == build_url(MATCH_BASE_URL, MATCH_PARAMS)
TeamInfoUrl ==
    TEAM_INFO_BASE_URL \o <<"?","t","m","c","l","=">> \o DEFAULT_SEASON_ID \o <<"&","_","r","t","=">> \o DEFAULT_RT
    \o <<"&","_","f","m","t","=">> \o DEFAULT_FMT
RosterUrl(team_id) ==
    build_url(ROSTER_BASE_URL,
              << <<"tmcl", DEFAULT_SEASON_ID>>, <<"_rt", DEFAULT_RT>>, <<"detailed", <<"y","e","s">> >>,
                 <<"_fmt", DEFAULT_FMT>>, <<"ctst", team_id>> >>)
TeamStatsUrl(season_id) == TEAM_STATS_BASE_URL \o <<"?","s","e","a","s","o","n","=">> \o season_id
PlayerStatsUrl(season_id) == PLAYER_STATS_BASE_URL \o <<"?","s","e","a","s","o","n","=">> \o season_id
CareerUrl(player_id) ==
    build_url(PLAYER_CAREER_BASE_URL,
              << <<"prsn", player_id>>, <<"_fmt", DEFAULT_FMT>>, <<"_rt", DEFAULT_RT>> >>)

\* a plain lookup that downgrades a "404" request error as get_roster does
PlainOutcomeDowngrading404(url, resp, closed) ==
    ExceptRequestError404(Get(url, resp, closed), [lastUpdated |-> ""])

\* get_standings, get_schedules, get_team_info: the outcome of _get, as it is
PlainOutcome(url, resp, closed) == Get(url, resp, closed)

\* the try block of get_roster on the decoded data
RosterData(cache, data) ==
    LET squad_list == IF "squad" \in DOMAIN data THEN data["squad"] ELSE <<>> IN
    IF squad_list /= <<>> /\ "person" \in DOMAIN squad_list[1]
    THEN DictSet(data, "squad",
                 [squad_list EXCEPT ![1] =
                     DictSet(squad_list[1], "person", EnrichAll(cache, squad_list[1]["person"]))])
    ELSE data

\* get_roster(team_id), the GET answered by resp
RosterOutcome(cache, team_id, resp, closed) ==
    LET out == Get(RosterUrl(team_id), resp, closed) IN
    IF out.kind = "return" THEN Return(RosterData(cache, out.value))
    ELSE ExceptRequestError404(out, RosterSentinel)

\* get_team_stats(season_id), the GET answered by resp
TeamStatsOutcome(season_id, resp, closed) ==
    LET out == Get(TeamStatsUrl(season_id), resp, closed) IN
    IF out.kind = "return" THEN out
    ELSE ExceptRequestError404(out, TeamStatsSentinel)

\* the try block of get_player_stats on the decoded data
PlayerStatsData(cache, data) ==
    IF "player" \in DOMAIN data
    THEN DictSet(data, "player", EnrichAll(cache, data["player"]))
    ELSE data

\* get_player_stats(season_id), the GET answered by resp
PlayerStatsOutcome(cache, season_id, resp, closed) ==
    LET out == Get(PlayerStatsUrl(season_id), resp, closed) IN
    IF out.kind = "return" THEN Return(PlayerStatsData(cache, out.value))
    ELSE ExceptRequestError404(out, PlayerStatsSentinel)

\* the try block of get_player_career on the decoded data
CareerData(cache, data) ==
    IF "person" \in DOMAIN data
    THEN DictSet(data, "person", EnrichAll(cache, data["person"]))
    ELSE data

\* get_player_career(player_id), the GET answered by resp
CareerOutcome(cache, player_id, resp, closed) ==
    LET out == Get(CareerUrl(player_id), resp, closed) IN
    IF out.kind = "return" THEN Return(CareerData(cache, out.value))
    ELSE ExceptRequestError404(out, CareerSentinel)

-----------------------------------------------------------------------------
(* Inputs of the retrieval operations *)

\* team ids, player ids and season ids the caller passes
IdArgs == {<<"t","1">>, <<"4","0","4">>, <<"@","4">>}
SeasonArgs == {DEFAULT_SEASON_ID, <<"4","0","4">>}

PersonA == [id |-> "p1", firstName |-> "Ann", bio |-> "old bio"]
PersonB == [id |-> "p9", firstName |-> "Bob"]
PersonC == [firstName |-> "NoId"]

OpaqueBodies == {[lastUpdated |-> "2025"]}

RosterBodies ==
    {[squad |-> <<[contestantId |-> "t1", person |-> <<PersonA, PersonB, PersonC>>]>>, lastUpdated |-> "2025"],
     [squad |-> <<[contestantId |-> "t1", person |-> <<PersonB>>],
                  [contestantId |-> "t2", person |-> <<PersonA>>]>>, lastUpdated |-> "2025"],
     [squad |-> <<[contestantId |-> "t1"]>>, lastUpdated |-> "2025"],
     [squad |-> <<>>, lastUpdated |-> "2025"],
     [lastUpdated |-> "2025"]}

CareerBodies ==
    {[person |-> <<PersonA>>, lastUpdated |-> "2025"],
     [person |-> <<PersonB, PersonC>>, lastUpdated |-> "2025"],
     [lastUpdated |-> "2025"]}

Stat(name, value) == [name |-> name, value |-> value]

Player(id, firstName, lastName, team, position) ==
    [position |-> position, id |-> id, shirtNumber |-> "9", firstName |-> firstName,
     lastName |-> lastName, shortFirstName |-> firstName, shortLastName |-> lastName,
     matchName |-> lastName, team |-> team]

\* a scorer known to the directory; a zero statistic and one outside the mapping
PlayerA ==
    DictSet(Player("p1", "Ann", "Archer", "FOR", "Forward"), "stat",
            <<Stat("Goals", <<"3">>), Stat("Yellow Cards", <<"1">>), Stat("Saves Made", <<"0">>),
              Stat("Minutes Played", <<"9","0">>)>>)

\* a better scorer unknown to the directory and to the team list; a statistic given twice
PlayerB ==
    DictSet(Player("p2", "Bea", "Baker", "CAV", "Midfielder"), "stat",
            <<Stat("Goals", <<"5">>), Stat("Yellow Cards", <<"1">>), Stat("Tackles Won", <<"2">>),
              Stat("Tackles Won", <<"1">>), Stat("Rating", <<"n","/","a">>)>>)

\* a player without the "stat" key
PlayerC == Player("p3", "Cy", "Cole", "FOR", "Defender")

\* a player with a statistic that is no integer
PlayerD ==
    DictSet(Player("p4", "Di", "Dunn", "FOR", "Goalkeeper"), "stat",
            <<Stat("Goals", <<"1">>), Stat("Goal Assists", <<"1",".","5">>)>>)

PlayerPool == {PlayerA, PlayerB, PlayerC, PlayerD}

TeamStatsFull ==
    [ip |-> "", feeds |-> <<>>,
     contestant |-> <<[id |-> "c1", name |-> "Forge FC", stat |-> <<>>, team |-> "FOR"]>>]

TeamStatsBodies == {TeamStatsFull, [ip |-> ""]}

PlayerStatsBodies == {[ip |-> "", feeds |-> <<>>, player |-> <<PlayerA, PlayerB>>], [ip |-> ""]}

\* the player_stats arguments with at most n players
PlayerStatsArgs(n) ==
    {[ip |-> ""]} \cup {[ip |-> "", feeds |-> <<>>, player |-> ps] : ps \in SeqsUpTo(PlayerPool, n)}

-----------------------------------------------------------------------------
(* CPLClient._extract_stat_value *)

DigitValue(c) ==
    CASE c = "0" -> 0 [] c = "1" -> 1 [] c = "2" -> 2 [] c = "3" -> 3 [] c = "4" -> 4
      [] c = "5" -> 5 [] c = "6" -> 6 [] c = "7" -> 7 [] c = "8" -> 8 [] c = "9" -> 9

IsDigit(c) == c \in {"0","1","2","3","4","5","6","7","8","9"}

RECURSIVE DigitsValue(_, _)
DigitsValue(text, acc) ==
    IF text = <<>> THEN acc ELSE DigitsValue(Tail(text), 10 * acc + DigitValue(Head(text)))

\* int(text): an optional sign and decimal digits, anything else is a ValueError
ParseInt(text) ==
    LET signed == text /= <<>> /\ Head(text) \in {"+", "-"}
        digits == IF signed THEN Tail(text) ELSE text
    IN IF digits = <<>> \/ \E i \in 1..Len(digits) : ~IsDigit(digits[i])
       THEN Raise("ValueError", text)
       ELSE Return(IF signed /\ Head(text) = "-" THEN 0 - DigitsValue(digits, 0) ELSE DigitsValue(digits, 0))

\* the loop of _extract_stat_value, from the running total
RECURSIVE ExtractFrom(_, _, _)
ExtractFrom(stats, stat_names, total) ==
    IF stats = <<>> THEN Return(total)
    ELSE LET stat == Head(stats) IN
         IF "name" \notin DOMAIN stat THEN Raise("KeyError", <<"n","a","m","e">>)
         ELSE IF stat["name"] \notin stat_names THEN ExtractFrom(Tail(stats), stat_names, total)
         ELSE IF "value" \notin DOMAIN stat THEN Raise("KeyError", <<"v","a","l","u","e">>)
         ELSE LET n == ParseInt(stat["value"]) IN
              IF n.kind = "raise" THEN n
              ELSE ExtractFrom(Tail(stats), stat_names, total + n.value)

ExtractStatValue(stats, stat_names) == ExtractFrom(stats, stat_names, 0)

-----------------------------------------------------------------------------
(* CPLClient._calculate_player_leaderboards *)

\* the keys of the leaderboards dict, in insertion order
Categories ==
    <<"GOALS", "ASSISTS", "SAVES", "PASSES", "INTERCEPTIONS", "TACKLES", "RED_CARDS", "YELLOW_CARDS">>

CategorySet == {Categories[i] : i \in 1..Len(Categories)}

\* the statistic read for each category (the extractions and stat_mappings)
StatName(category) ==
    CASE category = "GOALS" -> "Goals"
      [] category = "ASSISTS" -> "Goal Assists"
      [] category = "SAVES" -> "Saves Made"
      [] category = "PASSES" -> "Total Passes"
      [] category = "INTERCEPTIONS" -> "Interceptions"
      [] category = "TACKLES" -> "Tackles Won"
      [] category = "RED_CARDS" -> "Total Red Cards"
      [] category = "YELLOW_CARDS" -> "Yellow Cards"

\* the initial dict with one category left out
EmptyLeaderboardsWithoutSaves == [c \in CategorySet \ {"SAVES"} |-> <<>>]

\* leaderboards = {"GOALS": [], ..., "YELLOW_CARDS": []}
EmptyLeaderboards == [c \in CategorySet |-> <<>>]

\* team_map: later contestants override earlier ones
RECURSIVE TeamMapFrom(_, _)
TeamMapFrom(contestants, map) ==
    IF contestants = <<>> THEN map
    ELSE TeamMapFrom(Tail(contestants), DictSet(map, Head(contestants)["team"], Head(contestants)["name"]))

TeamMap(team_stats) ==
    TeamMapFrom(IF "contestant" \in DOMAIN team_stats THEN team_stats["contestant"] ELSE <<>>, <<>>)

PlayerKeys ==
    {"id", "firstName", "lastName", "position", "shirtNumber", "shortFirstName", "shortLastName",
     "matchName", "team"}

\* current_player_data
BasePlayerData(player, team_map) ==
    [player_id |-> player["id"],
     full_name |-> <<player["firstName"], player["lastName"]>>,
     position |-> player["position"],
     shirt_number |-> player["shirtNumber"],
     short_first_name |-> player["shortFirstName"],
     short_last_name |-> player["shortLastName"],
     match_name |-> player["matchName"],
     team_id |-> player["team"],
     team_name |-> IF player["team"] \in DOMAIN team_map THEN team_map[player["team"]] ELSE "",
     value |-> 0,
     ranking |-> 0]

\* the eight extractions of one player, in order: the values, or the first exception
RECURSIVE ExtractAll(_, _, _)
ExtractAll(stats, i, values) ==
    IF i > Len(Categories) THEN Return(values)
    ELSE LET v == ExtractStatValue(stats, {StatName(Categories[i])}) IN
         IF v.kind = "raise" THEN v
         ELSE ExtractAll(stats, i + 1, DictSet(values, Categories[i], v.value))

\* if value > 0
Qualifies(value) == value > 0

\* the for loop over stat_mappings: one entry per category whose value qualifies
AddEntries(leaderboards, player_data, values) ==
    [c \in DOMAIN leaderboards |->
        IF Qualifies(values[c])
        THEN Append(leaderboards[c], DictSet(player_data, "value", values[c]))
        ELSE leaderboards[c]]

\* the for loop over the players
RECURSIVE ProcessPlayers(_, _, _, _)
ProcessPlayers(cache, players, team_map, leaderboards) ==
    IF players = <<>> THEN Return(leaderboards)
    ELSE LET player == Head(players) IN
         IF "stat" \notin DOMAIN player
         THEN ProcessPlayers(cache, Tail(players), team_map, leaderboards)
         ELSE LET values == ExtractAll(player["stat"], 1, <<>>) IN
              IF values.kind = "raise" THEN values
              ELSE IF ~(PlayerKeys \subseteq DOMAIN player) THEN Raise("KeyError", <<>>)
              ELSE LET player_data ==
                           EnrichPlayerData(cache, BasePlayerData(player, team_map), player["id"])
                   IN ProcessPlayers(cache, Tail(players), team_map,
                                     AddEntries(leaderboards, player_data, values.value))

\* one step of a stable descending sort: e goes after every entry of at least its value
RECURSIVE InsertDescBeforeEqual(_, _)
InsertDescBeforeEqual(sorted, e) ==
    IF sorted = <<>> THEN <<e>>
    ELSE IF Head(sorted)["value"] > e["value"]
         THEN <<Head(sorted)>> \o InsertDescBeforeEqual(Tail(sorted), e)
    ELSE <<e>> \o sorted

RECURSIVE InsertDesc(_, _)
InsertDesc(sorted, e) ==
    IF sorted = <<>> THEN <<e>>
    ELSE IF Head(sorted)["value"] >= e["value"] THEN <<Head(sorted)>> \o InsertDesc(Tail(sorted), e)
    ELSE <<e>> \o sorted

RECURSIVE SortFrom(_, _)
SortFrom(entries, sorted) ==
    IF entries = <<>> THEN sorted ELSE SortFrom(Tail(entries), InsertDesc(sorted, Head(entries)))

\* sorted(entries, key=value, reverse=True)
SortedByValueDesc(entries) == SortFrom(entries, <<>>)

\* the ranking left at the enumerate index
RankFromZero(entries) == [i \in 1..Len(entries) |-> DictSet(entries[i], "ranking", i - 1)]

\* for i, entry in enumerate(entries): entry["ranking"] = i + 1
Rank(entries) == [i \in 1..Len(entries) |-> DictSet(entries[i], "ranking", i)]

\* the sort-and-rank loop
SortAndRank(leaderboards) ==
    [c \in DOMAIN leaderboards |-> Rank(SortedByValueDesc(leaderboards[c]))]

\* the entries of every category before the sort, or the exception raised
Candidates(cache, player_stats, team_stats) ==
    ProcessPlayers(cache,
                   IF "player" \in DOMAIN player_stats THEN player_stats["player"] ELSE <<>>,
                   TeamMap(team_stats), EmptyLeaderboards)

CalculatePlayerLeaderboards(cache, player_stats, team_stats) ==
    LET out == Candidates(cache, player_stats, team_stats) IN
    IF out.kind = "raise" THEN out ELSE Return(SortAndRank(out.value))

\* client.get_leaderboards(player_stats, team_stats)
GetLeaderboards(player_stats, team_stats) ==
    /\ pc \in {"open", "closed"}
    /\ last' = Call("get_leaderboards", [player_stats |-> player_stats, team_stats |-> team_stats],
                    NoResp, CalculatePlayerLeaderboards(player_cache, player_stats, team_stats), 0, <<>>)
    /\ UNCHANGED <<pc, player_cache>>

closed == pc = "closed"

\* the answers a call may meet: a closed client sends nothing and receives nothing
Answers(bodies) == IF closed THEN {NoResp} ELSE Responses(bodies)

GetStandings ==
    /\ pc \in {"open", "closed"}
    /\ \E resp \in Answers(OpaqueBodies) :
          last' = Call("get_standings", <<>>, resp, PlainOutcome(StandingsUrl, resp, closed),
                       GetRequests(closed), GetUrls(StandingsUrl, closed))
    /\ UNCHANGED <<pc, player_cache>>

GetSchedules ==
    /\ pc \in {"open", "closed"}
    /\ \E resp \in Answers(OpaqueBodies) :
          last' = Call("get_schedules", <<>>, resp, PlainOutcome(SchedulesUrl, resp, closed),
                       GetRequests(closed), GetUrls(SchedulesUrl, closed))
    /\ UNCHANGED <<pc, player_cache>>

GetTeamInfo ==
    /\ pc \in {"open", "closed"}
    /\ \E resp \in Answers(OpaqueBodies) :
          last' = Call("get_team_info", <<>>, resp, PlainOutcome(TeamInfoUrl, resp, closed),
                       GetRequests(closed), GetUrls(TeamInfoUrl, closed))
    /\ UNCHANGED <<pc, player_cache>>

\* get_roster that drops the player cache, as an invalidating lookup would
GetRosterInvalidatingCache ==
    /\ pc \in {"open", "closed"}
    /\ \E team_id \in IdArgs, resp \in Answers(RosterBodies) :
          last' = Call("get_roster", team_id, resp,
                       RosterOutcome(player_cache, team_id, resp, closed),
                       GetRequests(closed), GetUrls(RosterUrl(team_id), closed))
    /\ player_cache' = <<>>
    /\ UNCHANGED pc

GetRoster ==
    /\ pc \in {"open", "closed"}
    /\ \E team_id \in IdArgs, resp \in Answers(RosterBodies) :
          last' = Call("get_roster", team_id, resp,
                       RosterOutcome(player_cache, team_id, resp, closed),
                       GetRequests(closed), GetUrls(RosterUrl(team_id), closed))
    /\ UNCHANGED <<pc, player_cache>>

GetTeamStats ==
    /\ pc \in {"open", "closed"}
    /\ \E season_id \in SeasonArgs, resp \in Answers(TeamStatsBodies) :
          last' = Call("get_team_stats", season_id, resp,
                       TeamStatsOutcome(season_id, resp, closed),
                       GetRequests(closed), GetUrls(TeamStatsUrl(season_id), closed))
    /\ UNCHANGED <<pc, player_cache>>

GetPlayerStats ==
    /\ pc \in {"open", "closed"}
    /\ \E season_id \in SeasonArgs, resp \in Answers(PlayerStatsBodies) :
          last' = Call("get_player_stats", season_id, resp,
                       PlayerStatsOutcome(player_cache, season_id, resp, closed),
                       GetRequests(closed), GetUrls(PlayerStatsUrl(season_id), closed))
    /\ UNCHANGED <<pc, player_cache>>

GetPlayerCareer ==
    /\ pc \in {"open", "closed"}
    /\ \E player_id \in IdArgs, resp \in Answers(CareerBodies) :
          last' = Call("get_player_career", player_id, resp,
                       CareerOutcome(player_cache, player_id, resp, closed),
                       GetRequests(closed), GetUrls(CareerUrl(player_id), closed))
    /\ UNCHANGED <<pc, player_cache>>

Init ==
    /\ pc = "new"
    /\ player_cache = <<>>
    /\ last = Call("none", <<>>, NoResp, Return(None), 0, <<>>)

Next ==
    \/ Construct
    \/ Close
    \/ GetStandings
    \/ GetSchedules
    \/ GetTeamInfo
    \/ GetRoster
    \/ GetTeamStats
    \/ GetPlayerStats
    \/ GetPlayerCareer
    \/ \E player_stats \in PlayerStatsArgs(MaxCallerPlayers), team_stats \in TeamStatsBodies :
          GetLeaderboards(player_stats, team_stats)

Spec == Init /\ [][Next]_vars

\* one directory answer for each cache the constructor can build
DirectoryAnswerGiving(cache) ==
    CHOOSE resp \in Responses(DirectoryBodies) :
        InitializePlayerCache(Get(PLAYERS_ENDPOINT, resp, FALSE)) = cache

\* The leaderboard computation on long player lists: one construction, then one
\* get_leaderboards call for every cache the construction can leave and every
\* player list.
NextLB ==
    \/ Construct
    \/ /\ last.op = "__init__"
       /\ last.resp = DirectoryAnswerGiving(player_cache)
       /\ \E player_stats \in PlayerStatsArgs(MaxPlayers), team_stats \in TeamStatsBodies :
             GetLeaderboards(player_stats, team_stats)

SpecLB == Init /\ [][NextLB]_vars

-----------------------------------------------------------------------------
(* Properties *)

LeaderboardsReturned == last.op = "get_leaderboards" /\ last.out.kind = "return"

\* the player list get_leaderboards was given
GivenPlayers ==
    IF "player" \in DOMAIN last.arg.player_stats THEN last.arg.player_stats["player"] ELSE <<>>

\* player p carries the statistic read for category c
HasStatistic(p, c) ==
    "stat" \in DOMAIN p /\ \E j \in 1..Len(p["stat"]) : p["stat"][j]["name"] = StatName(c)

EightCategories ==
    {"GOALS", "ASSISTS", "SAVES", "PASSES", "INTERCEPTIONS", "TACKLES", "RED_CARDS", "YELLOW_CARDS"}

\* C1: every category returned by get_leaderboards has at most LEADERBOARD_LIMIT (5)
\* entries, whatever the input.
C1_AtMostLimit ==
    LeaderboardsReturned =>
        \A c \in DOMAIN last.out.value : Len(last.out.value[c]) <= LEADERBOARD_LIMIT

\* C2: in every returned category the values never increase from one entry to the
\* next and the entry at position i (from 1) has ranking i; players with 3 and 5
\* goals give GOALS = [the 5-goal player ranked 1, the 3-goal player ranked 2].
C2_SortedAndRanked ==
    LeaderboardsReturned =>
        /\ \A c \in DOMAIN last.out.value :
              LET entries == last.out.value[c] IN
              \A i \in 1..Len(entries) :
                 /\ entries[i]["ranking"] = i
                 /\ i < Len(entries) => entries[i]["value"] >= entries[i + 1]["value"]
        /\ GivenPlayers = <<PlayerA, PlayerB>> =>
              [i \in 1..Len(last.out.value["GOALS"]) |->
                  <<last.out.value["GOALS"][i]["player_id"], last.out.value["GOALS"][i]["ranking"],
                    last.out.value["GOALS"][i]["value"]>>]
              = << <<"p2", 1, 5>>, <<"p1", 2, 3>> >>

\* C2 witness: a returned category of three entries with a strict descent in it
C2_Witness ==
    /\ LeaderboardsReturned
    /\ \E c \in DOMAIN last.out.value :
          /\ Len(last.out.value[c]) >= 3
          /\ last.out.value[c][1]["value"] > last.out.value[c][3]["value"]
    /\ Len(GivenPlayers) >= 2 /\ GivenPlayers[1] = PlayerA /\ GivenPlayers[2] = PlayerB

\* C3: a result of get_leaderboards has exactly the eight fixed categories as keys;
\* an empty or absent player list raises nothing; a category no given player has the
\* statistic of is the empty sequence.
C3_EveryCategoryPresent ==
    last.op = "get_leaderboards" =>
        /\ GivenPlayers = <<>> => last.out.kind = "return"
        /\ last.out.kind = "return" =>
              /\ DOMAIN last.out.value = EightCategories
              /\ \A c \in EightCategories :
                    (\A i \in 1..Len(GivenPlayers) : ~HasStatistic(GivenPlayers[i], c))
                        => last.out.value[c] = <<>>

\* C3 witness: a result with an empty category beside a non-empty one
C3_Witness ==
    /\ LeaderboardsReturned
    /\ last.out.value["SAVES"] = <<>>
    /\ last.out.value["GOALS"] /= <<>>

\* C9: a player has an entry in category C exactly when the player's stat collection
\* holds C's statistic, a value of 0 included, and the entry carries that value.
C9_EntryIffStatisticPresent ==
    LeaderboardsReturned =>
        \A c \in DOMAIN last.out.value : \A i \in 1..Len(GivenPlayers) :
            HasStatistic(GivenPlayers[i], c)
                <=> \E k \in 1..Len(last.out.value[c]) :
                       /\ last.out.value[c][k]["player_id"] = GivenPlayers[i]["id"]
                       /\ last.out.value[c][k]["value"]
                             = ExtractStatValue(GivenPlayers[i]["stat"], {StatName(c)}).value

\* the GET of the last call was answered by an HTTP 404
Answered404 == last.resp.t = "status" /\ last.resp.code = 404

\* the GET of the last call failed, and not by an HTTP 404 or a timeout
FailedOtherwise ==
    \/ last.resp.t = "transport"
    \/ last.resp.t = "status" /\ last.resp.code \notin 200..299 /\ last.resp.code /= 404

\* C4: get_roster and get_player_career return their empty-shape sentinel, and raise
\* nothing, when the GET is answered by an HTTP 404.
C4_NotFoundGivesSentinel ==
    /\ last.op = "get_roster" /\ Answered404 =>
          last.out = Return([squad |-> <<>>, lastUpdated |-> ""])
    /\ last.op = "get_player_career" /\ Answered404 =>
          last.out = Return([person |-> <<>>, lastUpdated |-> ""])

\* C4 witness: a roster lookup answered by 404 that returned
C4_Witness ==
    last.op = "get_roster" /\ Answered404 /\ last.arg = <<"t","1">> /\ last.out.kind = "return"

\* C5: for get_roster and get_player_career a failure that is no HTTP 404 (another
\* non-2xx status or a transport error) is raised as a request error and is never
\* replaced by the sentinel, whatever the id, the URL and the error message.
C5_OtherFailuresRaised ==
    last.op \in {"get_roster", "get_player_career"} /\ FailedOtherwise =>
        last.out.kind = "raise" /\ last.out.exc = "RequestError"

\* C6 as stated: for get_standings, get_schedules, get_team_info, get_team_stats and
\* get_player_stats an HTTP 404 is raised as a request error and nothing is returned.
C6_OnlyRosterAndCareerDowngrade ==
    last.op \in {"get_standings", "get_schedules", "get_team_info", "get_team_stats", "get_player_stats"}
    /\ Answered404 =>
        last.out.kind = "raise" /\ last.out.exc = "RequestError"

\* C6 amended: for get_standings, get_schedules and get_team_info an HTTP 404 is
\* raised as a request error and nothing is returned; get_team_stats and
\* get_player_stats return their own empty sentinel on an HTTP 404, as the roster
\* and career lookups do.
C6_PlainLookupsRaise404 ==
    /\ last.op \in {"get_standings", "get_schedules", "get_team_info"} /\ Answered404 =>
          last.out.kind = "raise" /\ last.out.exc = "RequestError"
    /\ last.op = "get_team_stats" /\ Answered404 =>
          last.out = Return([ip |-> "", feeds |-> <<>>, contestant |-> <<>>])
    /\ last.op = "get_player_stats" /\ Answered404 =>
          last.out = Return([ip |-> "", feeds |-> <<>>, player |-> <<>>])

\* C6 witness: a standings lookup answered by 404 that raised
C6_Witness ==
    last.op = "get_standings" /\ Answered404 /\ last.out.kind = "raise"

\* C7: a GET that times out surfaces from every retrieval operation as
\* APITimeoutError: never as RequestError, never as a returned value.
C7_TimeoutKind ==
    last.resp.t = "timeout" /\ last.op /= "__init__" =>
        last.out.kind = "raise" /\ last.out.exc = "APITimeoutError"

\* C7 witness: a roster lookup for team "404" that timed out with "404" in the message
C7_Witness ==
    /\ last.op = "get_roster" /\ last.resp.t = "timeout"
    /\ last.arg = <<"4","0","4">> /\ Contains(last.resp.msg, <<"4","0","4">>)
    /\ last.out.kind = "raise"

\* record `after` is record `before` enriched for `id`: image and bio are the cached
\* ones when the id is cached and every other field is as before; nothing changes
\* when the id is not cached
EnrichedFrom(before, after, id) ==
    IF id \in DOMAIN player_cache
    THEN /\ DOMAIN after = DOMAIN before \cup {"image_url", "bio"}
         /\ after["image_url"] = player_cache[id]["image_url"]
         /\ after["bio"] = player_cache[id]["bio"]
         /\ \A k \in DOMAIN before \ {"image_url", "bio"} : after[k] = before[k]
    ELSE after = before

\* a list of records after enrichment of those that have an id
AllEnrichedFrom(before, after) ==
    /\ Len(after) = Len(before)
    /\ \A i \in 1..Len(before) :
          IF "id" \in DOMAIN before[i]
          THEN EnrichedFrom(before[i], after[i], before[i]["id"])
          ELSE after[i] = before[i]

\* the leaderboard record of player p, but for image, bio, value and ranking
IdentityOf(p) ==
    [player_id |-> p["id"], full_name |-> <<p["firstName"], p["lastName"]>>,
     position |-> p["position"], shirt_number |-> p["shirtNumber"],
     short_first_name |-> p["shortFirstName"], short_last_name |-> p["shortLastName"],
     match_name |-> p["matchName"], team_id |-> p["team"]]

\* C8: enriching a record changes at most its image and bio: with the id in the
\* cache they become the cached values and every other field stays, with the id
\* not in the cache no field changes; enrichment issues no request and raises nothing.
C8_EnrichmentFrame ==
    /\ last.op \in {"get_roster", "get_player_stats", "get_player_career"}
       /\ last.resp.t = "status" /\ last.resp.code = 200 /\ last.resp.json =>
          /\ last.out.kind = "return"
          /\ last.requests = 1
    /\ last.op = "get_roster" /\ last.out.kind = "return" /\ last.resp.json
       /\ "squad" \in DOMAIN last.resp.body /\ last.resp.body["squad"] /= <<>>
       /\ "person" \in DOMAIN last.resp.body["squad"][1] =>
          AllEnrichedFrom(last.resp.body["squad"][1]["person"], last.out.value["squad"][1]["person"])
    /\ last.op = "get_player_stats" /\ last.out.kind = "return" /\ last.resp.json
       /\ "player" \in DOMAIN last.resp.body =>
          AllEnrichedFrom(last.resp.body["player"], last.out.value["player"])
    /\ last.op = "get_player_career" /\ last.out.kind = "return" /\ last.resp.json
       /\ "person" \in DOMAIN last.resp.body =>
          AllEnrichedFrom(last.resp.body["person"], last.out.value["person"])
    /\ last.op = "get_leaderboards" => last.requests = 0
    /\ LeaderboardsReturned =>
          \A c \in DOMAIN last.out.value : \A k \in 1..Len(last.out.value[c]) :
              LET entry == last.out.value[c][k] IN
              \E i \in 1..Len(GivenPlayers) :
                  /\ GivenPlayers[i]["id"] = entry["player_id"]
                  /\ EnrichedFrom(IdentityOf(GivenPlayers[i]),
                                  [f \in DOMAIN entry \ {"value", "ranking", "team_name"} |-> entry[f]],
                                  entry["player_id"])

\* C8 witness: a roster whose first person had a bio that the cache overwrote and
\* whose second person, unknown to the cache, came back as it was
C8_Witness ==
    /\ last.op = "get_roster" /\ last.out.kind = "return" /\ last.resp.json
    /\ "p1" \in DOMAIN player_cache
    /\ "squad" \in DOMAIN last.resp.body /\ last.resp.body["squad"] /= <<>>
    /\ "person" \in DOMAIN last.resp.body["squad"][1]
    /\ Len(last.resp.body["squad"][1]["person"]) >= 2
    /\ last.resp.body["squad"][1]["person"][1] = PersonA
    /\ last.out.value["squad"][1]["person"][1]["bio"] /= PersonA["bio"]
    /\ last.out.value["squad"][1]["person"][2] = PersonB

\* the directory answer of the constructor is a failure of cache initialization:
\* a timeout, a request error, a body that is no JSON, no "players" key, a
\* "players" value that is no list, or a list with an element that is no object
CacheInitializationFailed ==
    \/ last.resp.t /= "status"
    \/ last.resp.code \notin 200..299
    \/ ~last.resp.json
    \/ last.resp.body.jt /= "object"
    \/ "players" \notin DOMAIN last.resp.body.obj
    \/ last.resp.body.obj["players"].jt /= "array"
    \/ \E i \in 1..Len(last.resp.body.obj["players"].items) :
          last.resp.body.obj["players"].items[i].jt /= "object"

\* C10: the constructor always returns, and whenever cache initialization fails
\* in any way the player cache is empty when it returns.
C10_FailureLeavesCacheEmpty ==
    last.op = "__init__" =>
        /\ pc = "open" /\ last.out.kind = "return"
        /\ CacheInitializationFailed => player_cache = <<>>

\* C11: once the constructor has returned, no public operation, successful or
\* failing, changes the player cache, and none requests the player directory.
C11_CacheWrittenOnce ==
    [][pc /= "new" =>
          /\ player_cache' = player_cache
          /\ \A i \in 1..Len(last'.urls) : last'.urls[i] /= PLAYERS_ENDPOINT]_vars

\* C11 witness: a failed lookup on a client whose cache holds a player
C11_Witness ==
    /\ last.op = "get_roster" /\ last.out.kind = "raise" /\ last.requests = 1
    /\ "p1" \in DOMAIN player_cache

\* the GET of the last call failed: a timeout, a transport error or a non-2xx status
GetFailed ==
    \/ last.resp.t \in {"timeout", "transport"}
    \/ last.resp.t = "status" /\ last.resp.code \notin 200..299

RetrievalOperations ==
    {"get_standings", "get_schedules", "get_team_info", "get_roster", "get_team_stats",
     "get_player_stats", "get_player_career"}

\* C12: a public retrieval operation issues at most one GET per call; when that GET
\* fails the call ends, raising or returning a sentinel, with that one request
\* only; get_leaderboards issues no request.
C12_AtMostOneGet ==
    /\ last.op \in RetrievalOperations =>
          /\ last.requests <= 1
          /\ GetFailed => last.requests = 1 /\ last.out.kind \in {"raise", "return"}
    /\ last.op = "get_leaderboards" => last.requests = 0 /\ last.urls = <<>>

\* C12 witness: a career lookup whose only GET failed with 404 and that returned the sentinel
C12_Witness ==
    /\ last.op = "get_player_career" /\ GetFailed /\ last.resp.code = 404
    /\ last.requests = 1 /\ last.out.kind = "return"

\* the player ids of a sequence of records, in order
IdsOf(records, key) == [i \in 1..Len(records) |-> records[i][key]]

\* the given players whose total for category c is v, in the order given
GivenWithTotal(c, v) ==
    LET HasTotal(p) ==
            "stat" \in DOMAIN p /\ ExtractStatValue(p["stat"], {StatName(c)}) = Return(v)
    IN SelectSeq(GivenPlayers, HasTotal)

\* the entries of value v of the returned category c, in the order returned
ReturnedWithValue(c, v) ==
    LET HasValue(e) == e["value"] = v IN SelectSeq(last.out.value[c], HasValue)

\* C13: within a returned category, the entries of equal value are in the order
\* in which their players stand in the given player list.
C13_TiesInEncounterOrder ==
    LeaderboardsReturned =>
        \A c \in DOMAIN last.out.value : \A k \in 1..Len(last.out.value[c]) :
            LET v == last.out.value[c][k]["value"] IN
            IdsOf(ReturnedWithValue(c, v), "player_id") = IdsOf(GivenWithTotal(c, v), "id")

\* C13 witness: two players tied on yellow cards, given as B, A, B and returned so
C13_Witness ==
    /\ LeaderboardsReturned
    /\ GivenPlayers = <<PlayerB, PlayerA, PlayerB>>
    /\ IdsOf(last.out.value["YELLOW_CARDS"], "player_id") = <<"p2", "p1", "p2">>
    /\ \A k \in 1..3 : last.out.value["YELLOW_CARDS"][k]["value"] = 1

\* player p has, for some category, a statistic whose value is missing or no integer
HasUnusableValue(p) ==
    /\ "stat" \in DOMAIN p
    /\ \E j \in 1..Len(p["stat"]) :
          /\ \E c \in EightCategories : p["stat"][j]["name"] = StatName(c)
          /\ \/ "value" \notin DOMAIN p["stat"][j]
             \/ ParseInt(p["stat"][j]["value"]).kind = "raise"

\* C14: a statistic whose value is non-numeric or missing contributes nothing:
\* get_leaderboards still returns the leaderboards of the other statistics and
\* players and raises no error because of that value.
C14_UnusableValueContributesNothing ==
    last.op = "get_leaderboards"
    /\ (\E i \in 1..Len(GivenPlayers) : HasUnusableValue(GivenPlayers[i])) =>
        /\ last.out.kind = "return"
        /\ \A i \in 1..Len(GivenPlayers) :
              GivenPlayers[i] = PlayerA =>
                  \E k \in 1..Len(last.out.value["GOALS"]) :
                      last.out.value["GOALS"][k]["player_id"] = "p1"

====
